---- MODULE Spec2Model ----
(***************************************************************************)
(* Transaction classification, output viewing and signing of               *)
(* common/transaction.go (src/unnamed/part_000).                           *)
(*                                                                         *)
(* The curve library and the crypto package are not part of the source     *)
(* tree; they are modelled by a prime-order group small enough to          *)
(* enumerate: the subgroup of order GroupOrder of the multiplicative group *)
(* modulo FieldPrime.  A point is a group element, a private key a scalar  *)
(* modulo GroupOrder, point addition is multiplication modulo FieldPrime.  *)
(***************************************************************************)
EXTENDS Integers, Sequences, FiniteSets, TLC

VARIABLES signed, op, ret, arg, out, consulted, used

vars == <<signed, op, ret, arg, out, consulted, used>>

(***************************************************************************)
(* Bounds of the model.                                                    *)
(***************************************************************************)
MaxTypeInputs == 2
MaxTypeOutputs == 2
MaxViewOutputs == 2
MaxInputs == 2
MaxSeqInputs == 1
MaxCalls == 2
MaxAccounts == 2
MaxAggInputs == 2
MaxAggAccounts == 2

(***************************************************************************)
(* Program constants, lines 22-45.                                         *)
(***************************************************************************)
OutputTypeScript == 0
OutputTypeWithdrawalSubmit == 161
OutputTypeNodePledge == 163
OutputTypeNodeAccept == 164
outputTypeNodeResign == 165
OutputTypeNodeRemove == 166
OutputTypeWithdrawalClaim == 169
OutputTypeNodeCancel == 170
OutputTypeCustodianUpdateNodes == 177
OutputTypeCustodianSlashNodes == 178

TransactionTypeScript == 0
TransactionTypeMint == 1
TransactionTypeDeposit == 2
TransactionTypeWithdrawalSubmit == 3
TransactionTypeWithdrawalClaim == 5
TransactionTypeNodePledge == 6
TransactionTypeNodeAccept == 7
transactionTypeNodeResign == 8
TransactionTypeNodeRemove == 9
TransactionTypeNodeCancel == 18
TransactionTypeCustodianUpdateNodes == 19
TransactionTypeCustodianSlashNodes == 20
TransactionTypeUnknown == 255

\* An output type outside the enumeration (scenario S4 of the specification).
OutputTypeUnspecified == 119

Nil == "nil"

SeqsUpTo(S, n) == UNION {[1..k -> S] : k \in 0..n}

(***************************************************************************)
(* The group standing for edwards25519 and the crypto package.             *)
(***************************************************************************)
GroupOrder == 11
FieldPrime == 23
Generator == 2

Scalars == 0..(GroupOrder - 1)

RECURSIVE Pow(_, _)
Pow(b, e) == IF e = 0 THEN 1 ELSE (b * Pow(b, e - 1)) % FieldPrime

\* The powers of the generator, and of every point, computed once.
GeneratorPowers == [k \in Scalars |-> Pow(Generator, k)]

Points == {GeneratorPowers[k] : k \in Scalars}

PointPowers == [p \in Points |-> [k \in Scalars |-> Pow(p, k)]]

\* crypto.Key.Public: the point k*G.
Public(k) == GeneratorPowers[k % GroupOrder]

IdentityPoint == 1

PointAdd(p, q) == (p * q) % FieldPrime

ScalarMult(k, p) == PointPowers[p][k % GroupOrder]

\* The inverse of a point: p^(GroupOrder-1).
PointNeg(p) == PointPowers[p][GroupOrder - 1]

\* Hs: the scalar hash of a point and a nonce.
HashScalar(p, i) == (7 * p + 3 * i + 1) % GroupOrder

DeriveGhostPublicKey(r, viewPub, spendPub, i) ==
    PointAdd(Public(HashScalar(ScalarMult(r, viewPub), i)), spendPub)

DeriveGhostPrivateKey(mask, viewPriv, spendPriv, i) ==
    (HashScalar(ScalarMult(viewPriv, mask), i) + spendPriv) % GroupOrder

ViewGhostOutputKey(k, a, mask, i) ==
    PointAdd(k, PointNeg(Public(HashScalar(ScalarMult(a, mask), i))))

\* crypto.Key.Sign: a deterministic Schnorr signature <<R, s>>.
Sign(k, msg) ==
    LET r == (5 * k + 3 * msg + 2) % GroupOrder
        R == Public(r)
        h == (R + 2 * Public(k) + msg) % GroupOrder
    IN  <<R, (r + h * k) % GroupOrder>>

(***************************************************************************)
(* Data model, lines 48-80.                                                *)
(***************************************************************************)
\* An Input; Genesis, Deposit and Mint record whether the field is non-nil.
Input(hash, index, genesis, deposit, mint) ==
    [Hash |-> hash, Index |-> index, Genesis |-> genesis,
     Deposit |-> deposit, Mint |-> mint]

Output(type, amount, keys, mask, script) ==
    [Type |-> type, Amount |-> amount, Keys |-> keys, Mask |-> mask,
     Script |-> script]

\* AggregatedSignature is << >> for nil and <<as>> once set.
SignedTransaction(inputs, outputs) ==
    [Inputs |-> inputs, Outputs |-> outputs,
     AggregatedSignature |-> <<>>, SignaturesMap |-> <<>>]

(***************************************************************************)
(* Addresses (external record): the private keys and their public points.  *)
(***************************************************************************)
Address(view, spend) ==
    [PrivateViewKey |-> view, PrivateSpendKey |-> spend,
     PublicViewKey |-> Public(view), PublicSpendKey |-> Public(spend)]

Alice == Address(2, 3)
Bob == Address(5, 7)
Carol == Address(8, 4)

\* crypto.NewKeyFromSeed: the scalar reduced from a seed.
NewKeyFromSeed(seed) == (3 * seed + 1) % GroupOrder

(***************************************************************************)
(* AddOutputWithType, lines 335-353: the keys of an output are derived     *)
(* with the output's position len(tx.Outputs) as nonce.                    *)
(***************************************************************************)
AddOutputWithType(outputs, ot, accounts, s, amount, seed) ==
    LET r == NewKeyFromSeed(seed)
        nonce == Len(outputs)
        o == IF Len(accounts) > 0
             THEN Output(ot, amount,
                    [j \in 1..Len(accounts) |->
                        DeriveGhostPublicKey(r, accounts[j].PublicViewKey,
                                             accounts[j].PublicSpendKey, nonce)],
                    Public(r), s)
             ELSE Output(ot, amount, <<>>, 0, s)
    IN  Append(outputs, o)

\* The outputs built by a sequence of AddOutputWithType calls.
RECURSIVE BuildOutputs(_)
BuildOutputs(calls) ==
    IF calls = <<>> THEN <<>>
    ELSE LET c == calls[Len(calls)]
         IN  AddOutputWithType(BuildOutputs(SubSeq(calls, 1, Len(calls) - 1)),
                               c.ot, c.accounts, c.s, c.amount, c.seed)

(***************************************************************************)
(* TransactionType, lines 106-146.                                         *)
(***************************************************************************)
\* A faulty SpecialTransactionType: the switch has a NodeResign case too.
SpecialTransactionTypeWithResign(t) ==
    CASE t = OutputTypeWithdrawalSubmit -> <<TransactionTypeWithdrawalSubmit>>
      [] t = OutputTypeWithdrawalClaim -> <<TransactionTypeWithdrawalClaim>>
      [] t = OutputTypeNodePledge -> <<TransactionTypeNodePledge>>
      [] t = OutputTypeNodeCancel -> <<TransactionTypeNodeCancel>>
      [] t = OutputTypeNodeAccept -> <<TransactionTypeNodeAccept>>
      [] t = outputTypeNodeResign -> <<transactionTypeNodeResign>>
      [] t = OutputTypeNodeRemove -> <<TransactionTypeNodeRemove>>
      [] t = OutputTypeCustodianUpdateNodes -> <<TransactionTypeCustodianUpdateNodes>>
      [] t = OutputTypeCustodianSlashNodes -> <<TransactionTypeCustodianSlashNodes>>
      [] OTHER -> <<>>

\* The switch of lines 121-138: <<type>> for a case that returns, << >> when
\* no case matches.
SpecialTransactionType(t) ==
    CASE t = OutputTypeWithdrawalSubmit -> <<TransactionTypeWithdrawalSubmit>>
      [] t = OutputTypeWithdrawalClaim -> <<TransactionTypeWithdrawalClaim>>
      [] t = OutputTypeNodePledge -> <<TransactionTypeNodePledge>>
      [] t = OutputTypeNodeCancel -> <<TransactionTypeNodeCancel>>
      [] t = OutputTypeNodeAccept -> <<TransactionTypeNodeAccept>>
      [] t = OutputTypeNodeRemove -> <<TransactionTypeNodeRemove>>
      [] t = OutputTypeCustodianUpdateNodes -> <<TransactionTypeCustodianUpdateNodes>>
      [] t = OutputTypeCustodianSlashNodes -> <<TransactionTypeCustodianSlashNodes>>
      [] OTHER -> <<>>

\* A faulty InputTransactionType: Deposit is checked before Mint.
InputTransactionTypeDepositFirst(in) ==
    IF in.Deposit THEN <<TransactionTypeDeposit>>
    ELSE IF in.Mint THEN <<TransactionTypeMint>>
    ELSE IF in.Genesis THEN <<TransactionTypeUnknown>>
    ELSE <<>>

\* The checks made on one input, lines 108-116: <<type>> for a check that
\* returns, << >> when none does.
InputTransactionType(in) ==
    IF in.Mint THEN <<TransactionTypeMint>>
    ELSE IF in.Deposit THEN <<TransactionTypeDeposit>>
    ELSE IF in.Genesis THEN <<TransactionTypeUnknown>>
    ELSE <<>>

\* The loop of lines 107-117 from input i on; << >> when it falls through.
RECURSIVE ScanInputs(_, _)
ScanInputs(inputs, i) ==
    IF i > Len(inputs) THEN <<>>
    ELSE IF InputTransactionType(inputs[i]) # <<>>
         THEN InputTransactionType(inputs[i])
         ELSE ScanInputs(inputs, i + 1)

\* The loop of lines 119-145 from output i on.
RECURSIVE ScanOutputs(_, _, _)
ScanOutputs(outputs, i, isScript) ==
    IF i > Len(outputs)
    THEN (IF isScript THEN TransactionTypeScript ELSE TransactionTypeUnknown)
    ELSE IF SpecialTransactionType(outputs[i].Type) # <<>>
         THEN SpecialTransactionType(outputs[i].Type)[1]
         ELSE ScanOutputs(outputs, i + 1,
                          isScript /\ outputs[i].Type = OutputTypeScript)

TransactionType(tx) ==
    IF ScanInputs(tx.Inputs, 1) # <<>>
    THEN ScanInputs(tx.Inputs, 1)[1]
    ELSE ScanOutputs(tx.Outputs, 1, TRUE)

(***************************************************************************)
(* ViewGhostKey, lines 82-104.  Positions are 0-based as in the source:    *)
(* output i of the loop is tx.Outputs[i + 1] here.                         *)
(***************************************************************************)
\* The copy made of one script output at position i, lines 90-99.
ViewOutput(o, a, i) ==
    Output(o.Type, o.Amount,
           [k \in 1..Len(o.Keys) |-> ViewGhostOutputKey(o.Keys[k], a, o.Mask, i)],
           o.Mask, o.Script)

\* A faulty ViewFrom: the nonce is the output's position in the result.
RECURSIVE ViewFromResultNonce(_, _, _, _)
ViewFromResultNonce(txOutputs, a, i, outputs) ==
    IF i >= Len(txOutputs) THEN outputs
    ELSE IF txOutputs[i + 1].Type # OutputTypeScript
         THEN ViewFromResultNonce(txOutputs, a, i + 1, outputs)
         ELSE ViewFromResultNonce(txOutputs, a, i + 1,
                Append(outputs, ViewOutput(txOutputs[i + 1], a, Len(outputs))))

RECURSIVE ViewFrom(_, _, _, _)
ViewFrom(txOutputs, a, i, outputs) ==
    IF i >= Len(txOutputs) THEN outputs
    ELSE IF txOutputs[i + 1].Type # OutputTypeScript
         THEN ViewFrom(txOutputs, a, i + 1, outputs)
         ELSE ViewFrom(txOutputs, a, i + 1,
                       Append(outputs, ViewOutput(txOutputs[i + 1], a, i)))

ViewGhostKey(tx, a) == ViewFrom(tx.Outputs, a, 0, <<>>)

(***************************************************************************)
(* Collaborators of the signers.                                           *)
(***************************************************************************)
\* PayloadHash of the versioned transaction: a digest of the transaction's
\* inputs and outputs (the signatures are not part of the payload).
RECURSIVE InputsDigest(_)
InputsDigest(inputs) ==
    IF inputs = <<>> THEN 1
    ELSE LET in == inputs[Len(inputs)]
         IN  (3 * InputsDigest(SubSeq(inputs, 1, Len(inputs) - 1))
              + 2 * in.Hash + in.Index
              + (IF in.Deposit THEN 4 ELSE 0) + (IF in.Mint THEN 5 ELSE 0)
              + (IF in.Genesis THEN 6 ELSE 0)) % GroupOrder

PayloadHash(tx) == (InputsDigest(tx.Inputs) + 7 * Len(tx.Outputs)) % GroupOrder

\* The UTXO of an output of a previous transaction: its keys, mask and index.
UTXO(outputs, index) ==
    [Keys |-> outputs[index + 1].Keys, Mask |-> outputs[index + 1].Mask,
     Index |-> index]

\* The outputs of the previous transaction with hash 1, as AddOutputWithType
\* builds them: output 0 to Alice, output 1 to Bob, Alice and Bob again.
LedgerOutputs ==
    BuildOutputs(<<
        [ot |-> OutputTypeScript, accounts |-> <<Alice>>, s |-> "s1",
         amount |-> 1, seed |-> 1],
        [ot |-> OutputTypeScript, accounts |-> <<Bob, Alice, Bob>>, s |-> "s1",
         amount |-> 2, seed |-> 2]>>)

\* UTXOKeysReader.ReadUTXOKeys: the UTXO (<<utxo>>, or << >> for nil) and the
\* error it returns.  Hash 1 is the previous transaction, hash 3 fails to be
\* read, any other is not found.
ReadUTXOKeys(hash, index) ==
    IF hash = 3 THEN [utxo |-> <<>>, err |-> "ReaderError"]
    ELSE IF hash = 1 /\ index < Len(LedgerOutputs)
         THEN [utxo |-> <<UTXO(LedgerOutputs, index)>>, err |-> Nil]
         ELSE [utxo |-> <<>>, err |-> Nil]

SetMax(S) == CHOOSE x \in S : \A y \in S : y <= x

\* keysFilter, lines 155-158: the key's position, the last one when the key
\* occurs several times (a later entry of the map overwrites an earlier one).
KeysFilter(keys) ==
    [k \in {keys[i] : i \in DOMAIN keys} |->
        SetMax({i \in DOMAIN keys : keys[i] = k}) - 1]

\* sigs[i] = &sig
MapPut(m, i, v) == [p \in (DOMAIN m) \cup {i} |-> IF p = i THEN v ELSE m[p]]

EmptyMap == [p \in {} |-> 0]

\* What a call leaves behind: its result, the transaction, and whether the
\* reader was consulted.
Outcome(r, tx, c) == [ret |-> r, signed |-> tx, consulted |-> c]

\* A faulty AppendSignatures: the map replaces the ones already there.
AppendSignaturesOverwrite(tx, sigs) == [tx EXCEPT !.SignaturesMap = <<sigs>>]

\* signed.SignaturesMap = append(signed.SignaturesMap, sigs)
AppendSignatures(tx, sigs) ==
    [tx EXCEPT !.SignaturesMap = Append(tx.SignaturesMap, sigs)]

\* The loop over the accounts, lines 161-169 and 201-209, from account j on:
\* the error of the first account whose key is not among the UTXO's, else
\* the map of signatures.
RECURSIVE SignAccounts(_, _, _, _, _, _)
SignAccounts(utxo, nonce, accounts, msg, j, sigs) ==
    IF j > Len(accounts) THEN [err |-> Nil, sigs |-> sigs]
    ELSE LET acc == accounts[j]
             priv == DeriveGhostPrivateKey(utxo.Mask, acc.PrivateViewKey,
                                           acc.PrivateSpendKey, nonce)
             filter == KeysFilter(utxo.Keys)
         IN  IF Public(priv) \notin DOMAIN filter
             THEN [err |-> "InvalidKey", sigs |-> sigs]
             ELSE SignAccounts(utxo, nonce, accounts, msg, j + 1,
                               MapPut(sigs, filter[Public(priv)], Sign(priv, msg)))

(***************************************************************************)
(* SignUTXO, lines 148-172.                                                *)
(***************************************************************************)
SignUTXO(tx, utxo, accounts) ==
    IF Len(accounts) = 0 THEN Outcome("ok", tx, FALSE)
    ELSE LET r == SignAccounts(utxo, utxo.Index, accounts, PayloadHash(tx), 1,
                               EmptyMap)
         IN  IF r.err # Nil THEN Outcome(r.err, tx, FALSE)
             ELSE Outcome("ok", AppendSignatures(tx, r.sigs), FALSE)

\* A faulty SignRaw: the format check of line 221 with || for &&.
SignRawEitherNil(tx, key) ==
    IF Len(tx.Inputs) # 1 THEN Outcome("InvalidInputsCount", tx, FALSE)
    ELSE IF ~tx.Inputs[1].Deposit \/ ~tx.Inputs[1].Mint
         THEN Outcome("InvalidInputFormat", tx, FALSE)
         ELSE Outcome("ok",
                      AppendSignatures(tx, MapPut(EmptyMap, 0,
                                                  Sign(key, PayloadHash(tx)))),
                      FALSE)

(***************************************************************************)
(* SignRaw, lines 214-228.                                                 *)
(***************************************************************************)
SignRaw(tx, key) ==
    IF Len(tx.Inputs) # 1 THEN Outcome("InvalidInputsCount", tx, FALSE)
    ELSE IF ~tx.Inputs[1].Deposit /\ ~tx.Inputs[1].Mint
         THEN Outcome("InvalidInputFormat", tx, FALSE)
         ELSE Outcome("ok",
                      AppendSignatures(tx, MapPut(EmptyMap, 0,
                                                  Sign(key, PayloadHash(tx)))),
                      FALSE)

(***************************************************************************)
(* SignInput, lines 174-212.  index is the source's 0-based int; a         *)
(* negative index passes the check of line 178 and signed.Inputs[index]    *)
(* panics (index out of range).                                            *)
(***************************************************************************)
\* The check of line 178.
IndexInRange(index, n) == ~(index >= n)

SignInput(tx, index, accounts) ==
    IF Len(accounts) = 0 THEN Outcome("ok", tx, FALSE)
    ELSE IF ~IndexInRange(index, Len(tx.Inputs))
         THEN Outcome("InvalidInputIndex", tx, FALSE)
    ELSE IF index < 0 THEN Outcome("panic", tx, FALSE)
    ELSE LET in == tx.Inputs[index + 1]
             rd == ReadUTXOKeys(in.Hash, in.Index)
         IN  IF in.Deposit \/ in.Mint
             THEN SignRaw(tx, accounts[1].PrivateSpendKey)
             ELSE IF rd.err # Nil THEN Outcome(rd.err, tx, TRUE)
             ELSE IF rd.utxo = <<>> THEN Outcome("InputNotFound", tx, TRUE)
             ELSE LET r == SignAccounts(rd.utxo[1], in.Index, accounts,
                                        PayloadHash(tx), 1, EmptyMap)
                  IN  IF r.err # Nil THEN Outcome(r.err, tx, TRUE)
                      ELSE Outcome("ok", AppendSignatures(tx, r.sigs), TRUE)

(***************************************************************************)
(* AggregateSign, lines 230-318.                                           *)
(***************************************************************************)
\* A faulty GlobalIndex: the position inside the input's own UTXO alone.
GlobalIndexLocal(offset, i) == i

\* m := len(pubKeys) + i, line 254.
GlobalIndex(offset, i) == offset + i

\* A faulty OrderViolated: < for <=.
OrderViolatedStrict(signers, m) == Len(signers) > 0 /\ m < signers[Len(signers)]

\* The order check of line 255.
OrderViolated(signers, m) == Len(signers) > 0 /\ m <= signers[Len(signers)]

\* The loop over accounts[index], lines 248-260, from account j on.
RECURSIVE CollectAccounts(_, _, _, _, _, _, _)
CollectAccounts(utxo, nonce, accs, j, offset, signers, privKeys) ==
    IF j > Len(accs)
    THEN [err |-> Nil, signers |-> signers, privKeys |-> privKeys]
    ELSE LET acc == accs[j]
             priv == DeriveGhostPrivateKey(utxo.Mask, acc.PrivateViewKey,
                                           acc.PrivateSpendKey, nonce)
             filter == KeysFilter(utxo.Keys)
         IN  IF Public(priv) \notin DOMAIN filter
             THEN [err |-> "InvalidKey", signers |-> signers,
                   privKeys |-> privKeys]
             ELSE LET m == GlobalIndex(offset, filter[Public(priv)])
                  IN  IF OrderViolated(signers, m)
                      THEN [err |-> "InvalidSignersOrder", signers |-> signers,
                            privKeys |-> privKeys]
                      ELSE CollectAccounts(utxo, nonce, accs, j + 1, offset,
                                           Append(signers, m),
                                           Append(privKeys, priv))

\* The loop over the inputs, lines 234-262, from input index (0-based) on.
\* accounts[index] panics when accounts is shorter than the inputs.
RECURSIVE CollectInputs(_, _, _, _, _, _)
CollectInputs(tx, accounts, index, signers, privKeys, pubKeys) ==
    IF index >= Len(tx.Inputs)
    THEN [err |-> Nil, signers |-> signers, privKeys |-> privKeys,
          pubKeys |-> pubKeys]
    ELSE LET in == tx.Inputs[index + 1]
             rd == ReadUTXOKeys(in.Hash, in.Index)
             stop(e) == [err |-> e, signers |-> signers, privKeys |-> privKeys,
                         pubKeys |-> pubKeys]
         IN  IF rd.err # Nil THEN stop(rd.err)
             ELSE IF rd.utxo = <<>> THEN stop("InputNotFound")
             ELSE IF index >= Len(accounts) THEN stop("panic")
             ELSE LET r == CollectAccounts(rd.utxo[1], in.Index,
                                           accounts[index + 1], 1, Len(pubKeys),
                                           signers, privKeys)
                  IN  IF r.err # Nil THEN stop(r.err)
                      ELSE CollectInputs(tx, accounts, index + 1, r.signers,
                                         r.privKeys, pubKeys \o rd.utxo[1].Keys)

\* The nonce of signer m, lines 267-269: the key from the hash of the seed and
\* the 16 bits of m.
NonceScalar(seed, m) == NewKeyFromSeed(2 * seed + 5 * (m % 65536))

\* P, lines 264-277: the sum of the nonce points.
RECURSIVE SumNoncePoints(_, _)
SumNoncePoints(seed, signers) ==
    IF signers = <<>> THEN IdentityPoint
    ELSE PointAdd(SumNoncePoints(seed, SubSeq(signers, 1, Len(signers) - 1)),
                  Public(NonceScalar(seed, signers[Len(signers)])))

\* A, lines 265 and 279-284: the sum of pubKeys[m] over the signers.
RECURSIVE SumPubKeys(_, _)
SumPubKeys(pubKeys, signers) ==
    IF signers = <<>> THEN IdentityPoint
    ELSE PointAdd(SumPubKeys(pubKeys, SubSeq(signers, 1, Len(signers) - 1)),
                  pubKeys[signers[Len(signers)] + 1])

\* x, lines 287-297: the scalar reduced from the hash of P, A and the message.
Challenge(P, A, msg) == (P + 3 * A + 5 * msg + 1) % GroupOrder

\* A faulty SumResponses: the nonce of signer i is taken at i, not at
\* signers[i].
RECURSIVE SumResponsesLocalNonce(_, _, _, _)
SumResponsesLocalNonce(x, privKeys, seed, signers) ==
    IF privKeys = <<>> THEN 0
    ELSE LET n == Len(privKeys)
             y == privKeys[n]
             z == NonceScalar(seed, n - 1)
         IN  (SumResponsesLocalNonce(x, SubSeq(privKeys, 1, n - 1), seed, signers)
              + x * y + z) % GroupOrder

\* S, lines 299-311: the sum of x*privKeys[i] + randoms[i].
RECURSIVE SumResponses(_, _, _, _)
SumResponses(x, privKeys, seed, signers) ==
    IF privKeys = <<>> THEN 0
    ELSE LET n == Len(privKeys)
             y == privKeys[n]
             z == NonceScalar(seed, signers[n])
         IN  (SumResponses(x, SubSeq(privKeys, 1, n - 1), seed, signers)
              + x * y + z) % GroupOrder

\* A faulty AggregateSign: the aggregated signature is appended to
\* SignaturesMap as well.
AggregateSignAlsoMapped(tx, accounts, seed) ==
    LET c == CollectInputs(tx, accounts, 0, <<>>, <<>>, <<>>)
        read == Len(tx.Inputs) > 0
    IN  IF c.err # Nil THEN Outcome(c.err, tx, read)
        ELSE LET P == SumNoncePoints(seed, c.signers)
                 A == SumPubKeys(c.pubKeys, c.signers)
                 x == Challenge(P, A, PayloadHash(tx))
                 S == SumResponses(x, c.privKeys, seed, c.signers)
                 as == [Signers |-> c.signers, Signature |-> <<P, S>>]
             IN  Outcome("ok",
                         [tx EXCEPT !.AggregatedSignature = <<as>>,
                                    !.SignaturesMap = Append(@, MapPut(EmptyMap, 0, <<P, S>>))],
                         read)

AggregateSign(tx, accounts, seed) ==
    LET c == CollectInputs(tx, accounts, 0, <<>>, <<>>, <<>>)
        read == Len(tx.Inputs) > 0
    IN  IF c.err # Nil THEN Outcome(c.err, tx, read)
        ELSE LET P == SumNoncePoints(seed, c.signers)
                 A == SumPubKeys(c.pubKeys, c.signers)
                 x == Challenge(P, A, PayloadHash(tx))
                 S == SumResponses(x, c.privKeys, seed, c.signers)
                 as == [Signers |-> c.signers, Signature |-> <<P, S>>]
             IN  Outcome("ok", [tx EXCEPT !.AggregatedSignature = <<as>>], read)

(***************************************************************************)
(* The classifier applied to bounded transactions.                         *)
(***************************************************************************)
OutputTypes ==
    {OutputTypeScript, OutputTypeWithdrawalSubmit, OutputTypeNodePledge,
     OutputTypeNodeAccept, outputTypeNodeResign, OutputTypeNodeRemove,
     OutputTypeWithdrawalClaim, OutputTypeNodeCancel,
     OutputTypeCustodianUpdateNodes, OutputTypeCustodianSlashNodes,
     OutputTypeUnspecified}

TypeInputs == {Input(1, 0, g, d, m) : g \in BOOLEAN, d \in BOOLEAN, m \in BOOLEAN}

TypeOutputs == {Output(t, 1, <<>>, 0, "script") : t \in OutputTypes}

NoCall == [name |-> "none"]

InitType ==
    /\ \E ins \in SeqsUpTo(TypeInputs, MaxTypeInputs),
          outs \in SeqsUpTo(TypeOutputs, MaxTypeOutputs) :
            signed = SignedTransaction(ins, outs)
    /\ op = "init"
    /\ ret = Nil
    /\ arg = NoCall
    /\ out = Nil
    /\ consulted = FALSE
    /\ used = {}

CallTransactionType ==
    /\ op' = "TransactionType"
    /\ out' = TransactionType(signed)
    /\ UNCHANGED <<signed, ret, arg, consulted, used>>

NextType == CallTransactionType

SpecType == InitType /\ [][NextType]_vars

(***************************************************************************)
(* The viewer applied to transactions built by AddOutputWithType.          *)
(***************************************************************************)
OutputCalls ==
    {[ot |-> t, accounts |-> accs, s |-> as[2], amount |-> as[1], seed |-> sd] :
        t \in {OutputTypeScript, OutputTypeWithdrawalSubmit},
        accs \in {<<>>, <<Alice>>, <<Bob, Alice>>},
        as \in {<<1, "s1">>, <<2, "s2">>},
        sd \in {1, 2}}

ViewKeys == {Alice.PrivateViewKey, Carol.PrivateViewKey}

InitView ==
    /\ \E calls \in SeqsUpTo(OutputCalls, MaxViewOutputs) :
            signed = SignedTransaction(<<>>, BuildOutputs(calls))
    /\ op = "init"
    /\ ret = Nil
    /\ arg = NoCall
    /\ out = Nil
    /\ consulted = FALSE
    /\ used = {}

CallViewGhostKey ==
    \E a \in ViewKeys :
        /\ op' = "ViewGhostKey"
        /\ arg' = [name |-> "ViewGhostKey", a |-> a]
        /\ out' = ViewGhostKey(signed, a)
        /\ UNCHANGED <<signed, ret, consulted, used>>

NextView == CallViewGhostKey

SpecView == InitView /\ [][NextView]_vars

(***************************************************************************)
(* The inputs and accounts the signers are called with.                    *)
(***************************************************************************)
Accounts == {Alice, Bob}

AccountLists == SeqsUpTo(Accounts, MaxAccounts)

\* The inputs a transaction is built from: the two outputs of the previous
\* transaction, an output that is not found, one the reader fails on, and a
\* deposit, a mint and a genesis input.
FoundInputs ==
    {Input(1, 0, FALSE, FALSE, FALSE), Input(1, 1, FALSE, FALSE, FALSE)}

MissingInputs ==
    {Input(2, 0, FALSE, FALSE, FALSE), Input(3, 0, FALSE, FALSE, FALSE)}

RawInputs ==
    {Input(0, 0, FALSE, TRUE, FALSE), Input(0, 0, FALSE, FALSE, TRUE),
     Input(0, 0, TRUE, FALSE, FALSE)}

SignInputs == FoundInputs \cup MissingInputs \cup RawInputs

\* The state a call starts from, and the effect of a call on the state: what
\* is recorded of the call (a), and what the call leaves behind (o).
Start(txs) ==
    /\ signed \in txs
    /\ op = "init"
    /\ ret = Nil
    /\ arg = NoCall
    /\ out = Nil
    /\ consulted = FALSE
    /\ used = {}

Apply(name, path, a, o) ==
    /\ op' = name
    /\ arg' = a
    /\ ret' = o.ret
    /\ signed' = o.signed
    /\ consulted' = o.consulted
    /\ used' = used \cup {path}
    /\ UNCHANGED out

(***************************************************************************)
(* The four signers called in any order on one transaction.  Of a call's   *)
(* arguments only whether accounts was empty is recorded.                  *)
(***************************************************************************)
Init ==
    Start({SignedTransaction(ins, <<>>) : ins \in SeqsUpTo(SignInputs, MaxSeqInputs)})

CallSignUTXO ==
    /\ Len(signed.SignaturesMap) < MaxCalls
    /\ \E index \in 0..(Len(LedgerOutputs) - 1), accounts \in AccountLists :
            Apply("SignUTXO", "map",
                  [name |-> "SignUTXO", some |-> accounts # <<>>],
                  SignUTXO(signed, UTXO(LedgerOutputs, index), accounts))

CallSignInput ==
    /\ Len(signed.SignaturesMap) < MaxCalls
    /\ \E index \in (-1)..Len(signed.Inputs), accounts \in AccountLists :
            Apply("SignInput", "map",
                  [name |-> "SignInput", some |-> accounts # <<>>],
                  SignInput(signed, index, accounts))

CallSignRaw ==
    /\ Len(signed.SignaturesMap) < MaxCalls
    /\ \E acc \in Accounts :
            Apply("SignRaw", "map", [name |-> "SignRaw", some |-> TRUE],
                  SignRaw(signed, acc.PrivateSpendKey))

CallAggregateSign ==
    \E accounts \in [1..Len(signed.Inputs) -> {<<>>, <<Alice>>, <<Alice, Bob>>}] :
        Apply("AggregateSign", "aggregate",
              [name |-> "AggregateSign", some |-> TRUE],
              AggregateSign(signed, accounts, 1))

Next == CallSignUTXO \/ CallSignInput \/ CallSignRaw \/ CallAggregateSign

Spec == Init /\ [][Next]_vars

(***************************************************************************)
(* One call of SignInput or SignRaw, on a transaction that is new or       *)
(* already holds a signature map; the call's arguments are recorded.       *)
(***************************************************************************)
InitInput ==
    Start(UNION {{SignedTransaction(ins, <<>>),
                  SignUTXO(SignedTransaction(ins, <<>>), UTXO(LedgerOutputs, 1),
                           <<Alice>>).signed} :
                 ins \in SeqsUpTo(SignInputs, MaxInputs)})

OneSignInput ==
    /\ op = "init"
    /\ \E index \in (-2)..(Len(signed.Inputs) + 1), accounts \in AccountLists :
            Apply("SignInput", "map",
                  [name |-> "SignInput", index |-> index, accounts |-> accounts,
                   before |-> signed],
                  SignInput(signed, index, accounts))

OneSignRaw ==
    /\ op = "init"
    /\ \E acc \in Accounts :
            Apply("SignRaw", "map",
                  [name |-> "SignRaw", key |-> acc.PrivateSpendKey,
                   before |-> signed],
                  SignRaw(signed, acc.PrivateSpendKey))

NextInput == OneSignInput \/ OneSignRaw

SpecInput == InitInput /\ [][NextInput]_vars

(***************************************************************************)
(* One call of AggregateSign on a new transaction; the call's arguments    *)
(* are recorded.                                                           *)
(***************************************************************************)
AggInputs == FoundInputs \cup MissingInputs

InitAgg ==
    Start({SignedTransaction(ins, <<>>) : ins \in SeqsUpTo(AggInputs, MaxAggInputs)})

\* The account lists of a call on n inputs: one list per input, or one list
\* too few.
AggregateAccounts(n) ==
    UNION {[1..k -> SeqsUpTo(Accounts, MaxAggAccounts)] : k \in {n - 1, n} \cap Nat}

OneAggregateSign ==
    /\ op = "init"
    /\ \E accounts \in AggregateAccounts(Len(signed.Inputs)), seed \in {1, 2} :
            Apply("AggregateSign", "aggregate",
                  [name |-> "AggregateSign", accounts |-> accounts, seed |-> seed],
                  AggregateSign(signed, accounts, seed))

NextAgg == OneAggregateSign

SpecAgg == InitAgg /\ [][NextAgg]_vars

(***************************************************************************)
(* Properties.                                                             *)
(***************************************************************************)
PlainInput(in) == ~in.Mint /\ ~in.Deposit /\ ~in.Genesis

\* C1 as stated: a transaction one of whose inputs carries Mint classifies
\* as Mint, wherever that input stands and whatever the other inputs carry.
C1_AnyMintInputIsMint ==
    (op = "TransactionType" /\ \E i \in DOMAIN signed.Inputs : signed.Inputs[i].Mint)
        => out = TransactionTypeMint

\* C1 amended: the first input that carries Mint, Deposit or Genesis decides.
\* The transaction classifies as Mint when that input carries Mint, as
\* Deposit when it carries Deposit and no Mint, as Unknown when it carries
\* Genesis only, whatever the later inputs and the outputs are.
C1_FirstSpecialInputDecides ==
    op = "TransactionType" =>
        \A i \in DOMAIN signed.Inputs :
            (\A j \in 1..(i - 1) : PlainInput(signed.Inputs[j])) =>
                LET in == signed.Inputs[i]
                IN  /\ in.Mint => out = TransactionTypeMint
                    /\ (~in.Mint /\ in.Deposit) => out = TransactionTypeDeposit
                    /\ (~in.Mint /\ ~in.Deposit /\ in.Genesis)
                            => out = TransactionTypeUnknown

\* A Mint input behind a plain input, and a special output: Mint.
C1_Witness ==
    /\ op = "TransactionType"
    /\ Len(signed.Inputs) = 2
    /\ PlainInput(signed.Inputs[1])
    /\ signed.Inputs[2].Mint
    /\ Len(signed.Outputs) = 2
    /\ signed.Outputs[1].Type = OutputTypeWithdrawalSubmit
    /\ out = TransactionTypeMint

\* The transaction type of each special output type.
SpecialTypes ==
    (OutputTypeWithdrawalSubmit :> TransactionTypeWithdrawalSubmit)
    @@ (OutputTypeWithdrawalClaim :> TransactionTypeWithdrawalClaim)
    @@ (OutputTypeNodePledge :> TransactionTypeNodePledge)
    @@ (OutputTypeNodeCancel :> TransactionTypeNodeCancel)
    @@ (OutputTypeNodeAccept :> TransactionTypeNodeAccept)
    @@ (OutputTypeNodeRemove :> TransactionTypeNodeRemove)
    @@ (OutputTypeCustodianUpdateNodes :> TransactionTypeCustodianUpdateNodes)
    @@ (OutputTypeCustodianSlashNodes :> TransactionTypeCustodianSlashNodes)

\* C5: with no input carrying Mint, Deposit or Genesis the first output of a
\* special type decides; with no such output the type is Script exactly when
\* every output is a Script output, else Unknown; NodeResign (0x08) is never
\* the result for any transaction.
C5_FirstSpecialOutputDecides ==
    op = "TransactionType" =>
        /\ out # transactionTypeNodeResign
        /\ (\A i \in DOMAIN signed.Inputs : PlainInput(signed.Inputs[i])) =>
            LET outs == signed.Outputs
                special == {i \in DOMAIN outs : outs[i].Type \in DOMAIN SpecialTypes}
            IN  IF special # {}
                THEN \E i \in special :
                        /\ \A j \in special : i <= j
                        /\ out = SpecialTypes[outs[i].Type]
                ELSE out = (IF \A i \in DOMAIN outs : outs[i].Type = OutputTypeScript
                            THEN TransactionTypeScript
                            ELSE TransactionTypeUnknown)

\* A NodeResign output before a NodeCancel output, a plain input: NodeCancel.
C5_Witness ==
    /\ op = "TransactionType"
    /\ Len(signed.Inputs) = 1
    /\ PlainInput(signed.Inputs[1])
    /\ Len(signed.Outputs) = 2
    /\ signed.Outputs[1].Type = outputTypeNodeResign
    /\ signed.Outputs[2].Type = OutputTypeNodeCancel
    /\ out = TransactionTypeNodeCancel

\* The positions (1-based) of the Script outputs, and the j-th of them.
ScriptPositions(outs) == {i \in DOMAIN outs : outs[i].Type = OutputTypeScript}

NthScriptPosition(outs, j) ==
    CHOOSE i \in ScriptPositions(outs) :
        Cardinality({k \in ScriptPositions(outs) : k < i}) = j - 1

\* C9: ViewGhostKey returns one output per Script output, in order, with the
\* same Type, Amount, Script and Mask and as many keys, each key the view of
\* the original key under the output's position in tx.Outputs; the
\* transaction is unchanged by the call.
C9_ViewerIsFilter ==
    [][op' = "ViewGhostKey" =>
        /\ signed' = signed
        /\ Len(out') = Cardinality(ScriptPositions(signed.Outputs))
        /\ \A j \in DOMAIN out' :
            LET i == NthScriptPosition(signed.Outputs, j)
                o == signed.Outputs[i]
                v == out'[j]
            IN  /\ v.Type = o.Type /\ v.Amount = o.Amount
                /\ v.Script = o.Script /\ v.Mask = o.Mask
                /\ Len(v.Keys) = Len(o.Keys)
                /\ \A k \in DOMAIN o.Keys :
                    v.Keys[k] = ViewGhostOutputKey(o.Keys[k], arg'.a, o.Mask, i - 1)
    ]_vars

\* A Script output with two keys behind an output that is not one.
C9_Witness ==
    /\ op = "ViewGhostKey"
    /\ Len(signed.Outputs) = 2
    /\ signed.Outputs[1].Type # OutputTypeScript
    /\ signed.Outputs[2].Type = OutputTypeScript
    /\ Len(signed.Outputs[2].Keys) = 2
    /\ Len(out) = 1
    /\ Len(out[1].Keys) = 2

PerInputSigners == {"SignUTXO", "SignInput", "SignRaw"}

IsPrefix(s, t) == Len(s) <= Len(t) /\ SubSeq(t, 1, Len(s)) = s

\* C2 as stated: every per-input signing call that returns success makes
\* SignaturesMap one entry longer, one that returns an error leaves it
\* unchanged, and the entries already there stay as they are.
C2_SuccessAppendsOne ==
    [][op' \in PerInputSigners =>
        /\ ret' = "ok" => Len(signed'.SignaturesMap) = Len(signed.SignaturesMap) + 1
        /\ ret' \notin {"ok", "panic"} => signed'.SignaturesMap = signed.SignaturesMap
        /\ IsPrefix(signed.SignaturesMap, signed'.SignaturesMap)
    ]_vars

\* C2 amended: a call that returns success with a non-empty accounts list
\* (every successful SignRaw included) makes SignaturesMap one entry longer;
\* a call of SignUTXO or SignInput with an empty accounts list returns
\* success and leaves it unchanged, as does a call that returns an error;
\* the entries already there stay as they are.
C2_AppendOnly ==
    [][op' \in PerInputSigners =>
        /\ (ret' = "ok" /\ arg'.some)
                => Len(signed'.SignaturesMap) = Len(signed.SignaturesMap) + 1
        /\ ~arg'.some
                => (ret' = "ok" /\ signed'.SignaturesMap = signed.SignaturesMap)
        /\ ret' # "ok" => signed'.SignaturesMap = signed.SignaturesMap
        /\ IsPrefix(signed.SignaturesMap, signed'.SignaturesMap)
    ]_vars

\* A second map appended by a successful SignInput with accounts.
C2_Witness ==
    /\ op = "SignInput"
    /\ ret = "ok"
    /\ arg.some
    /\ Len(signed.SignaturesMap) = 2

\* C3 as stated: AggregatedSignature and SignaturesMap are never both
\* populated, whatever the sequence of signing calls.
C3_NotBothPopulated ==
    signed.AggregatedSignature = <<>> \/ signed.SignaturesMap = <<>>

\* C3 amended: the per-input signers never set AggregatedSignature and
\* AggregateSign never adds to SignaturesMap, so the two are not both
\* populated as long as the calls made on the transaction are all of one
\* signing path; calls of both paths can populate both.
C3_OnePathNotBoth ==
    /\ "aggregate" \notin used => signed.AggregatedSignature = <<>>
    /\ "map" \notin used => signed.SignaturesMap = <<>>

\* An aggregated signature stored by AggregateSign alone.
C3_Witness ==
    /\ used = {"aggregate"}
    /\ signed.AggregatedSignature # <<>>
    /\ Len(signed.AggregatedSignature[1].Signers) > 0

\* C6: SignInput with accounts and an index that is no position of
\* signed.Inputs returns InvalidInputIndex, does not abort, does not consult
\* the reader and leaves the transaction unchanged.
C6_OutOfRangeIndexIsError ==
    (/\ op = "SignInput"
     /\ arg.accounts # <<>>
     /\ arg.index \notin 0..(Len(arg.before.Inputs) - 1))
        => (ret = "InvalidInputIndex" /\ ~consulted /\ signed = arg.before)

\* What SignRaw with the key leaves of the transaction tx, as C7 states it.
RawOutcome(tx, key) ==
    LET one == Len(tx.Inputs) = 1
        raw == one /\ (tx.Inputs[1].Deposit \/ tx.Inputs[1].Mint)
    IN  /\ (ret = "ok") <=> raw
        /\ raw => signed = [tx EXCEPT !.SignaturesMap =
                                Append(@, (0 :> Sign(key, PayloadHash(tx))))]
        /\ ~one => (ret = "InvalidInputsCount" /\ signed = tx)
        /\ (one /\ ~raw) => (ret = "InvalidInputFormat" /\ signed = tx)

\* C7: SignRaw succeeds exactly on a transaction whose single input is a
\* deposit or mint input and then appends the map {0: sig}; it fails with
\* InvalidInputsCount on another number of inputs, with InvalidInputFormat on
\* a single input that is neither, and then changes nothing.  SignInput on a
\* deposit or mint input has the outcome of SignRaw with
\* accounts[0].PrivateSpendKey.
C7_SignRawOutcome ==
    /\ op = "SignRaw" => RawOutcome(arg.before, arg.key)
    /\ (/\ op = "SignInput"
        /\ arg.accounts # <<>>
        /\ arg.index \in 0..(Len(arg.before.Inputs) - 1)
        /\ LET in == arg.before.Inputs[arg.index + 1] IN in.Deposit \/ in.Mint)
            => RawOutcome(arg.before, arg.accounts[1].PrivateSpendKey)

\* SignInput with two accounts on the mint input of a transaction that holds
\* a signature map already: a second map is appended.
C7_Witness ==
    /\ op = "SignInput"
    /\ ret = "ok"
    /\ Len(arg.accounts) = 2
    /\ arg.accounts[1] # arg.accounts[2]
    /\ Len(arg.before.Inputs) = 1
    /\ arg.before.Inputs[1].Mint
    /\ Len(signed.SignaturesMap) = 2

\* The keys of the UTXO of input j (1-based) of the transaction.
InputKeys(j) ==
    LET in == signed.Inputs[j] IN ReadUTXOKeys(in.Hash, in.Index).utxo[1].Keys

\* The number of UTXO keys of the inputs before input j.
RECURSIVE KeysBefore(_)
KeysBefore(j) == IF j = 1 THEN 0 ELSE KeysBefore(j - 1) + Len(InputKeys(j - 1))

\* The public ghost key the account derives for input j.
AccountKey(j, acc) ==
    LET in == signed.Inputs[j]
        utxo == ReadUTXOKeys(in.Hash, in.Index).utxo[1]
    IN  Public(DeriveGhostPrivateKey(utxo.Mask, acc.PrivateViewKey,
                                     acc.PrivateSpendKey, in.Index))

\* The accounts of a call in the order they sign: <<input, account>> pairs.
RECURSIVE SignerList(_, _)
SignerList(accounts, n) ==
    IF n = 0 THEN <<>>
    ELSE SignerList(accounts, n - 1)
         \o [k \in 1..Len(accounts[n]) |-> <<n, accounts[n][k]>>]

\* C4: after a successful AggregateSign the stored Signers are strictly
\* ascending, one per account in signing order, each the number of UTXO keys
\* of the earlier inputs plus a position of the account's key in the UTXO of
\* its own input.
C4_SignersAscending ==
    (op = "AggregateSign" /\ ret = "ok") =>
        LET s == signed.AggregatedSignature[1].Signers
            l == SignerList(arg.accounts, Len(signed.Inputs))
        IN  /\ \A k \in 2..Len(s) : s[k] > s[k - 1]
            /\ Len(s) = Len(l)
            /\ \A k \in DOMAIN s :
                LET j == l[k][1]
                    i == s[k] - KeysBefore(j)
                IN  /\ i \in 0..(Len(InputKeys(j)) - 1)
                    /\ InputKeys(j)[i + 1] = AccountKey(j, l[k][2])

\* Two inputs, one signer of the first and two of the second.
C4_Witness ==
    /\ op = "AggregateSign"
    /\ ret = "ok"
    /\ Len(signed.Inputs) = 2
    /\ signed.AggregatedSignature[1].Signers = <<0, 2, 3>>

\* The product of a sequence of points.
RECURSIVE PointSum(_)
PointSum(ps) == IF ps = <<>> THEN IdentityPoint ELSE PointAdd(ps[1], PointSum(Tail(ps)))

\* The UTXO keys of the inputs 1..n, in input order.
RECURSIVE AllInputKeys(_)
AllInputKeys(n) == IF n = 0 THEN <<>> ELSE AllInputKeys(n - 1) \o InputKeys(n)

\* C8: after a successful AggregateSign the stored (P, S) satisfies
\* S*G = x*A + P, with A the sum of pub_keys[m] over the stored Signers, P the
\* sum of the nonce points R_m and x the challenge of (P, A, payload hash).
C8_VerifierEquation ==
    (op = "AggregateSign" /\ ret = "ok") =>
        LET as == signed.AggregatedSignature[1]
            P == as.Signature[1]
            S == as.Signature[2]
            keys == AllInputKeys(Len(signed.Inputs))
            A == PointSum([k \in DOMAIN as.Signers |-> keys[as.Signers[k] + 1]])
            R == PointSum([k \in DOMAIN as.Signers |->
                              Public(NonceScalar(arg.seed, as.Signers[k]))])
            x == Challenge(P, A, PayloadHash(signed))
        IN  /\ P = R
            /\ Public(S) = PointAdd(ScalarMult(x, A), P)

\* Three signers over two inputs, the second seed.
C8_Witness ==
    /\ op = "AggregateSign"
    /\ ret = "ok"
    /\ arg.seed = 2
    /\ Len(signed.Inputs) = 2
    /\ Len(signed.AggregatedSignature[1].Signers) = 3

\* The position under which a key of the UTXO is found: its last one.
KeyPosition(keys, k) == SetMax({i \in DOMAIN keys : keys[i] = k}) - 1

\* The accounts given for input j are in ascending key position order.
AscendingAccounts(j, accs) ==
    \A k \in 2..Len(accs) :
        LET a == AccountKey(j, accs[k - 1])
            b == AccountKey(j, accs[k])
            keys == InputKeys(j)
        IN  (a \in {keys[i] : i \in DOMAIN keys} /\ b \in {keys[i] : i \in DOMAIN keys})
                => KeyPosition(keys, b) > KeyPosition(keys, a)

Readable(j) ==
    LET in == signed.Inputs[j] IN ReadUTXOKeys(in.Hash, in.Index).utxo # <<>>

\* C10: AggregateSign does not fail with InvalidSignersOrder when the
\* accounts of every input are in ascending key position order, whatever the
\* inputs before them hold: the offsets added across inputs never make the
\* order check fail.
C10_OrderFailsWithinOneInput ==
    (/\ op = "AggregateSign"
     /\ Len(arg.accounts) = Len(signed.Inputs)
     /\ \A j \in DOMAIN signed.Inputs :
            Readable(j) => AscendingAccounts(j, arg.accounts[j]))
        => ret # "InvalidSignersOrder"

\* The last key of the first input signs, then the first key of the second.
C10_Witness ==
    /\ op = "AggregateSign"
    /\ ret = "ok"
    /\ Len(signed.Inputs) = 2
    /\ signed.AggregatedSignature[1].Signers = <<2, 3>>

====
